---- MODULE Spec2Model ----
(***************************************************************************)
(* State-machine model of the document question-answering pipeline:        *)
(* VectorStoreManager (src/src/vector_store.py), DocumentRetriever         *)
(* (src/src/retriever.py) and RAGChatbot (src/src/chatbot.py), together    *)
(* with the persistence directory they write and read; the Streamlit page  *)
(* that drives them (src/app.py); and, as single functions,                *)
(* DocumentLoader.load_documents (src/src/document_loader.py),             *)
(* TextProcessor.process_documents (src/src/text_processor.py) and the     *)
(* hybrid combination and deduplication of the retriever.                  *)
(*                                                                         *)
(* One process runs one RAGChatbot, which owns one VectorStoreManager and   *)
(* one DocumentRetriever.  Every public method is one action; its outcome   *)
(* (return value or exception) is recorded in ret.  Calls out to the        *)
(* embedding service, the index and the language model either return or    *)
(* raise; which of the two is an input of the action.                      *)
(***************************************************************************)
EXTENDS Integers, Sequences, FiniteSets, TLC

VARIABLES
    storeType,              \* settings.VECTOR_STORE_TYPE.lower()
    disk,                   \* contents of settings.PERSIST_DIRECTORY
    objs,                   \* the index objects (Chroma / FAISS instances) alive in the process
    vector_store,           \* VectorStoreManager.vector_store: None or an index object
    base_retriever,         \* DocumentRetriever.base_retriever: None or the index object it searches
    compression_retriever,  \* DocumentRetriever.compression_retriever: likewise
    conversation_chain,     \* RAGChatbot.conversation_chain: None or the index object its retriever searches
    memory,                 \* RAGChatbot.memory.chat_memory.messages
    session,                \* st.session_state of the Streamlit page (app.py)
    args,                   \* arguments of the function call under study (single-function specifications)
    ret                     \* outcome of the last call

vars == <<storeType, disk, objs, vector_store, base_retriever,
          compression_retriever, conversation_chain, memory, session, args, ret>>

----------------------------------------------------------------------------
(* Bounds of the model *)

\* longest index (number of chunks held by one index object)
MaxChunks == 2
\* longest batch handed to one add_documents call
MaxBatch == 2
\* longest conversation memory, in chat turns (two messages a turn)
MaxTurns == 2
\* largest explicit k handed to a search
MaxK == 2
\* index objects that can be alive at once (vector_store, chain, retriever, one fresh)
NumHandles == 4
\* longest sequence handed to _deduplicate_documents
MaxDocs == 4
\* longest list of plain similarity results handed to the hybrid combination
MaxSim == 3
\* longest list of scored results handed to the hybrid combination
MaxScored == 2
\* most files in the documents folder and its subfolder
MaxFiles == 2
\* pages of a well-formed PDF file
PdfPages == 2
\* longest document sequence handed to process_documents
MaxTexts == 2

(* Program constants *)

RETRIEVAL_K == 4
CHUNK_SIZE == 1000
CHUNK_OVERLAP == 100

\* score_threshold = 0.7 of _hybrid_retrieval, in tenths
ScoreThreshold == 7

----------------------------------------------------------------------------
(* Values *)

None == 0
Handles == 1..NumHandles

Contents == {"x", "y"}

\* metadata["source"]: a string (hashable), or a list (unhashable; the FAISS
\* docstore accepts it, Chroma rejects non-scalar metadata values)
SourceVals == {[kind |-> "str", val |-> "f1.txt"], [kind |-> "list", val |-> "f1.txt"]}

\* the chunks of the model: two contents, and one content under both kinds of source
Chunks == {[content |-> "x", source |-> [kind |-> "str", val |-> "f1.txt"]],
           [content |-> "y", source |-> [kind |-> "str", val |-> "f1.txt"]],
           [content |-> "x", source |-> [kind |-> "list", val |-> "f1.txt"]]}

SeqsUpTo(S, n) == UNION {[1..m -> S] : m \in 0..n}

Batches == SeqsUpTo(Chunks, MaxBatch)

Questions == {"q1", "q2"}
Answers == {"a1"}

\* the retrieval_method argument; "other" stands for any unrecognised name
Methods == {"similarity", "compression", "hybrid", "other"}

\* distances reported by similarity_search_with_score, in tenths
Scores == {5, 9}

NotReadyAnswer == "Maaf, sistem belum siap. Pastikan dokumen telah dimuat ke dalam vector store."
ErrorAnswer == "Maaf, terjadi kesalahan"

Min(a, b) == IF a < b THEN a ELSE b

\* the elements of s at the positions I, in their order in s
SelectAt(s, I) ==
    [n \in 1..Cardinality(I) |-> s[CHOOSE i \in I : Cardinality({j \in I : j < i}) = n - 1]]

----------------------------------------------------------------------------
(* The persistence directory *)

\* chromaFiles: the directory holds Chroma's database files
\* chromaColl:  the chunks of the persisted collection
\* faissFolder: faiss_index/index.faiss and faiss_index/index.pkl exist (written by save_local)
\* faissData:   the chunks serialised in them
\* faissFlat:   a file faiss_index.faiss exists next to the folder (what _setup_faiss
\*              and reset_vector_store test for)
EmptyDisk ==
    [chromaFiles |-> FALSE, chromaColl |-> <<>>,
     faissFolder |-> FALSE, faissData |-> <<>>, faissFlat |-> FALSE]

\* os.path.exists(PERSIST_DIRECTORY) and os.listdir(PERSIST_DIRECTORY)
DirNonEmpty(d) == d.chromaFiles \/ d.faissFolder \/ d.faissFlat

\* An index object: the chunks it holds, and whether its collection was deleted
BlankObj == [data |-> <<>>, dropped |-> FALSE]

HasListMeta(docs) == \E i \in 1..Len(docs) : docs[i].source.kind = "list"

----------------------------------------------------------------------------
(* VectorStoreManager *)

\* _setup_chroma: [loaded, data] of the vector store the constructor ends with
SetupChroma(d) ==
    IF DirNonEmpty(d)
    THEN [loaded |-> TRUE, data |-> d.chromaColl]
    ELSE [loaded |-> FALSE, data |-> <<>>]

\* _setup_faiss
SetupFaiss(d) ==
    IF d.faissFlat
    THEN [loaded |-> TRUE, data |-> d.faissData]
    ELSE [loaded |-> FALSE, data |-> <<>>]

\* _load_or_create_vector_store
LoadOrCreateVectorStore(type, d) ==
    IF type = "chroma" THEN SetupChroma(d) ELSE SetupFaiss(d)

\* _save_faiss: save_local(faiss_path) writes faiss_path/index.faiss and index.pkl
SaveFaiss(d, data) == [d EXCEPT !.faissFolder = TRUE, !.faissData = data]

\* vector_store.persist() of a Chroma store holding data
PersistChroma(d, data) == [d EXCEPT !.chromaFiles = TRUE, !.chromaColl = data]

\* add_documents, store empty: Chroma.from_documents(...) + persist()
\* The Chroma client and its collection are created in the directory before the
\* chunks are embedded, so a failed call leaves database files behind.
CreateChroma(d, docs, fail) ==
    IF fail \/ HasListMeta(docs)
    THEN [raised |-> IF fail THEN "Exception" ELSE "ValueError", created |-> FALSE,
          data |-> <<>>, disk |-> [d EXCEPT !.chromaFiles = TRUE], embedded |-> 0]
    ELSE [raised |-> "none", created |-> TRUE, data |-> d.chromaColl \o docs,
          disk |-> PersistChroma(d, d.chromaColl \o docs), embedded |-> Len(docs)]

\* add_documents, store empty: FAISS.from_documents(...) + _save_faiss()
CreateFaiss(d, docs, fail) ==
    IF fail
    THEN [raised |-> "Exception", created |-> FALSE, data |-> <<>>, disk |-> d, embedded |-> 0]
    ELSE [raised |-> "none", created |-> TRUE, data |-> docs,
          disk |-> SaveFaiss(d, docs), embedded |-> Len(docs)]

\* add_documents, store populated: vector_store.add_documents(...) + persist()
AppendChroma(d, data, docs, fail) ==
    IF fail \/ HasListMeta(docs)
    THEN [raised |-> IF fail THEN "Exception" ELSE "ValueError", created |-> FALSE,
          data |-> data, disk |-> d, embedded |-> 0]
    ELSE [raised |-> "none", created |-> FALSE, data |-> data \o docs,
          disk |-> PersistChroma(d, data \o docs), embedded |-> Len(docs)]

\* add_documents, store populated: vector_store.add_documents(...) + _save_faiss()
AppendFaiss(d, data, docs, fail) ==
    IF fail
    THEN [raised |-> "Exception", created |-> FALSE, data |-> data, disk |-> d, embedded |-> 0]
    ELSE [raised |-> "none", created |-> FALSE, data |-> data \o docs,
          disk |-> SaveFaiss(d, data \o docs), embedded |-> Len(docs)]

\* add_documents(documents): the outcome, the chunks the store then holds, whether a
\* new index object was created, the directory afterwards, and how many chunks
\* were sent to the embedding service.  populated: vector_store is not None;
\* data: the chunks the store holds before the call.
AddDocumentsResult(type, populated, data, d, docs, fail) ==
    IF docs = <<>>
    THEN [raised |-> "none", created |-> FALSE, data |-> data, disk |-> d, embedded |-> 0]
    ELSE IF ~populated
         THEN IF type = "chroma" THEN CreateChroma(d, docs, fail)
                                 ELSE CreateFaiss(d, docs, fail)
         ELSE IF type = "chroma" THEN AppendChroma(d, data, docs, fail)
                                 ELSE AppendFaiss(d, data, docs, fail)

\* k = k or settings.RETRIEVAL_K  (None and 0 are both falsy); None is -1
KNone == -1
EffectiveK(k) == IF k = KNone \/ k = 0 THEN RETRIEVAL_K ELSE k

\* the k nearest chunks of an index object (insertion order stands for distance order)
Nearest(data, k) == SubSeq(data, 1, Min(k, Len(data)))

\* similarity_search without the emptiness test: None has no similarity_search
SimilaritySearchUnguarded(vs, o, k, fail) ==
    IF vs = None \/ fail \/ o[vs].dropped
    THEN [raised |-> IF vs = None THEN "AttributeError" ELSE "Exception",
          docs |-> <<>>, called |-> vs # None]
    ELSE [raised |-> "none", docs |-> Nearest(o[vs].data, EffectiveK(k)), called |-> TRUE]

\* similarity_search(query, k): [raised, docs, called]; called: the index was queried
SimilaritySearchResult(vs, o, k, fail) ==
    IF vs = None
    THEN [raised |-> "none", docs |-> <<>>, called |-> FALSE]
    ELSE IF fail \/ o[vs].dropped
         THEN [raised |-> "Exception", docs |-> <<>>, called |-> TRUE]
         ELSE [raised |-> "none", docs |-> Nearest(o[vs].data, EffectiveK(k)), called |-> TRUE]

\* similarity_search_with_score(query, k): docs are (chunk, score) pairs;
\* sc gives the distance of each content to the query
SimilaritySearchWithScoreResult(vs, o, k, fail, sc) ==
    IF vs = None
    THEN [raised |-> "none", docs |-> <<>>, called |-> FALSE]
    ELSE IF fail \/ o[vs].dropped
         THEN [raised |-> "Exception", docs |-> <<>>, called |-> TRUE]
         ELSE [raised |-> "none",
               docs |-> [i \in 1..Min(EffectiveK(k), Len(o[vs].data)) |->
                            [doc |-> o[vs].data[i], score |-> sc[o[vs].data[i].content]]],
               called |-> TRUE]

\* search_kwargs argument of get_retriever: None, {} or {"k": n}
SearchKwargs == {[kind |-> "None", k |-> 0], [kind |-> "empty", k |-> 0]}
                \cup {[kind |-> "k", k |-> n] : n \in 1..MaxK}

\* get_retriever without the emptiness test
GetRetrieverUnchecked(vs, kw) ==
    [raised |-> "none", handle |-> vs, k |-> IF kw.kind = "k" THEN kw.k ELSE RETRIEVAL_K]

\* get_retriever(search_kwargs): [raised, handle, k]: the retriever searches the
\* index object `handle` for k chunks
GetRetrieverResult(vs, kw) ==
    IF vs = None
    THEN [raised |-> "ValueError", handle |-> None, k |-> 0]
    ELSE [raised |-> "none", handle |-> vs,
          k |-> IF kw.kind = "k" THEN kw.k ELSE RETRIEVAL_K]

\* reset_vector_store: the directory afterwards.  populated: `if self.vector_store`.
\* delete_collection() empties the persisted collection; the database files stay.
ResetDisk(type, populated, d) ==
    IF type = "chroma"
    THEN IF populated THEN [d EXCEPT !.chromaColl = <<>>] ELSE d
    ELSE IF d.faissFlat THEN [d EXCEPT !.faissFlat = FALSE] ELSE d

\* reset_vector_store without its last assignment: the handle is kept
ResetKeepsHandle(vs) == vs

\* reset_vector_store: self.vector_store afterwards
ResetVectorStoreValue(vs) == None

----------------------------------------------------------------------------
(* DocumentRetriever *)

\* _setup_retrievers: get_retriever() raising ValueError leaves both retrievers None
SetupRetrievers(vs) ==
    LET r == GetRetrieverResult(vs, [kind |-> "None", k |-> 0])
    IN  IF r.raised = "ValueError"
        THEN [base |-> None, compression |-> None]
        ELSE [base |-> r.handle, compression |-> r.handle]

\* _similarity_retrieval: base_retriever.get_relevant_documents(query)
SimilarityRetrieval(base, o, failAt) ==
    IF failAt = "vector_store" \/ o[base].dropped
    THEN [raised |-> "Exception", docs |-> <<>>, worked |-> TRUE]
    ELSE [raised |-> "none", docs |-> Nearest(o[base].data, RETRIEVAL_K), worked |-> TRUE]

\* the text LLMChainExtractor extracts from a chunk
CompressText(c) == IF c = "x" THEN "x~" ELSE "y~"

\* the chunks of docs whose content is in keep, each cut down to its extract
Compressed(docs, keep) ==
    LET kept == SelectSeq(docs, LAMBDA dd : dd.content \in keep)
    IN  [i \in 1..Len(kept) |-> [kept[i] EXCEPT !.content = CompressText(kept[i].content)]]

\* _compression_retrieval; keep: the contents the extractor finds relevant
CompressionRetrieval(base, comp, o, failAt, keep) ==
    IF comp = None
    THEN SimilarityRetrieval(base, o, failAt)
    ELSE LET s == SimilarityRetrieval(comp, o, failAt)
         IN  IF s.raised # "none" THEN s
             ELSE IF failAt = "llm"
                  THEN [raised |-> "Exception", docs |-> <<>>, worked |-> TRUE]
                  ELSE [raised |-> "none", docs |-> Compressed(s.docs, keep), worked |-> TRUE]

\* hash(doc.page_content); distinct contents of the model have distinct hashes
Hash(c) ==
    CASE c = "x" -> 1 [] c = "y" -> 2 [] c = "x~" -> 3
      [] c = "z" -> 5 [] c = "u" -> 6 [] c = "v" -> 7 [] OTHER -> 4

RECURSIVE DedupFrom(_, _, _)
DedupFrom(docs, i, seen) ==
    IF i > Len(docs) THEN <<>>
    ELSE IF Hash(docs[i].content) \in seen
         THEN DedupFrom(docs, i + 1, seen)
         ELSE <<docs[i]>> \o DedupFrom(docs, i + 1, seen \cup {Hash(docs[i].content)})

\* a deduplication that compares whole documents, metadata included
DeduplicateWholeDocuments(docs) ==
    SelectAt(docs, {i \in 1..Len(docs) : \A j \in 1..(i - 1) : docs[j] # docs[i]})

\* _deduplicate_documents
DeduplicateDocuments(docs) == DedupFrom(docs, 1, {})

\* a filter that also keeps a chunk whose score is the threshold itself
FilterByScoreInclusive(scored) ==
    LET kept == SelectSeq(scored, LAMBDA p : p.score <= ScoreThreshold)
    IN  [i \in 1..Len(kept) |-> kept[i].doc]

\* [doc for doc, score in scored_docs if score < score_threshold]
FilterByScore(scored) ==
    LET kept == SelectSeq(scored, LAMBDA p : p.score < ScoreThreshold)
    IN  [i \in 1..Len(kept) |-> kept[i].doc]

\* _hybrid_retrieval once both searches have returned: filter, concatenate,
\* deduplicate, cut to RETRIEVAL_K
HybridCombine(similarity_docs, scored_docs) ==
    LET all_docs    == similarity_docs \o FilterByScore(scored_docs)
        unique_docs == DeduplicateDocuments(all_docs)
    IN  SubSeq(unique_docs, 1, Min(RETRIEVAL_K, Len(unique_docs)))

\* _hybrid_retrieval; sc: the distance of each content to the query
HybridRetrieval(base, vs, o, failAt, sc) ==
    LET s  == SimilarityRetrieval(base, o, failAt)
        w  == SimilaritySearchWithScoreResult(vs, o, KNone, failAt = "score_search", sc)
    IN  IF s.raised # "none" THEN s
        ELSE IF w.raised # "none" \/ failAt = "filter"
             THEN [raised |-> "Exception", docs |-> <<>>, worked |-> TRUE]
             ELSE [raised |-> "none", docs |-> HybridCombine(s.docs, w.docs),
                   worked |-> TRUE]

\* the if/elif chain of retrieve_documents
Strategy(base, comp, vs, o, method, failAt, sc, keep) ==
    IF method = "similarity" THEN SimilarityRetrieval(base, o, failAt)
    ELSE IF method = "compression" THEN CompressionRetrieval(base, comp, o, failAt, keep)
    ELSE IF method = "hybrid" THEN HybridRetrieval(base, vs, o, failAt, sc)
    ELSE [raised |-> "ValueError", docs |-> <<>>, worked |-> FALSE]

\* an except clause that logs and raises again
RetrievalReraise(r) ==
    [raised |-> r.raised, docs |-> <<>>, worked |-> r.worked, logged |-> "Error during retrieval"]

\* `except Exception as e: print(...); return []` of retrieve_documents
RetrievalExcept(r) ==
    [raised |-> "none", docs |-> <<>>, worked |-> r.worked, logged |-> "Error during retrieval"]

\* retrieve_documents(query, method): [raised, docs, worked, logged]; worked: a
\* retriever or the index was queried; logged: the message printed
RetrieveDocumentsResult(base, comp, vs, o, method, failAt, sc, keep) ==
    IF base = None
    THEN [raised |-> "none", docs |-> <<>>, worked |-> FALSE, logged |-> "No retriever available"]
    ELSE LET r == Strategy(base, comp, vs, o, method, failAt, sc, keep)
         IN  IF r.raised # "none"
             THEN RetrievalExcept(r)
             ELSE [raised |-> "none", docs |-> r.docs, worked |-> r.worked, logged |-> ""]

\* get_document_sources: the distinct hashable sources; a list-valued source cannot
\* be added to a set and raises TypeError
GetDocumentSources(docs) ==
    IF HasListMeta(docs)
    THEN [raised |-> "TypeError", sources |-> {}]
    ELSE [raised |-> "none", sources |-> {docs[i].source.val : i \in 1..Len(docs)}]

\* format_retrieved_context
FormatRetrievedContext(docs) ==
    IF docs = <<>>
    THEN [found |-> FALSE, parts |-> <<>>]
    ELSE [found |-> TRUE,
          parts |-> [i \in 1..Len(docs) |->
                        [n |-> i, source |-> docs[i].source.val, content |-> docs[i].content]]]

----------------------------------------------------------------------------
(* RAGChatbot *)

\* _setup_conversation_chain: the chain is built over get_retriever(); when that
\* raises ValueError the attribute keeps the value it had
SetupConversationChain(vs, chain) ==
    LET r == GetRetrieverResult(vs, [kind |-> "None", k |-> 0])
    IN  IF r.raised = "ValueError" THEN chain ELSE r.handle

\* memory.save_context: the question, then the answer
SaveContext(mem, q, ans) ==
    mem \o <<[type |-> "human", content |-> q], [type |-> "ai", content |-> ans]>>

\* self.conversation_chain({"question": message}): the chain retrieves from the
\* index object it is bound to, calls the language model, and on success saves
\* the turn into memory before it returns; a failure of either step raises
\* before anything is saved
ChainCall(obj, mem, q, failAt, ans) ==
    IF failAt \in {"retrieval", "llm"} \/ obj.dropped
    THEN [raised |-> "Exception", answer |-> "", docs |-> <<>>, memory |-> mem]
    ELSE [raised |-> "none", answer |-> ans, docs |-> Nearest(obj.data, RETRIEVAL_K),
          memory |-> SaveContext(mem, q, ans)]

\* a not-ready return that records the question all the same
ChatNotReadyRecording(mem) ==
    [answer |-> NotReadyAnswer, docs |-> <<>>, sources |-> {},
     memory |-> mem \o <<[type |-> "human", content |-> "q1"]>>,
     called |-> FALSE, raised |-> "none"]

\* the not-ready return of chat
ChatNotReady(mem) ==
    [answer |-> NotReadyAnswer, docs |-> <<>>, sources |-> {}, memory |-> mem,
     called |-> FALSE, raised |-> "none"]

\* `except Exception as e` of chat; mem: the memory when the exception is caught
ChatExcept(mem) ==
    [answer |-> ErrorAnswer, docs |-> <<>>, sources |-> {}, memory |-> mem,
     called |-> TRUE, raised |-> "none"]

\* a chat that looks at retrieval_method: a name that is no strategy is an error
ChatByMethod(chain, o, mem, q, method, failAt, ans) ==
    IF chain = None
    THEN ChatNotReady(mem)
    ELSE LET r == ChainCall(o[chain], mem, q, failAt, ans)
             s == GetDocumentSources(r.docs)
         IN  IF method \notin {"similarity", "compression", "hybrid"} THEN ChatExcept(mem)
             ELSE IF r.raised # "none" \/ s.raised # "none" THEN ChatExcept(r.memory)
             ELSE [answer |-> r.answer, docs |-> r.docs, sources |-> s.sources,
                   memory |-> r.memory, called |-> TRUE, raised |-> "none"]

\* chat(message, retrieval_method): the returned dict, the memory afterwards, and
\* whether the chain (retriever and language model) was invoked
ChatResult(chain, o, mem, q, method, failAt, ans) ==
    IF chain = None
    THEN ChatNotReady(mem)
    ELSE LET r == ChainCall(o[chain], mem, q, failAt, ans)
             s == GetDocumentSources(r.docs)
         IN  IF r.raised # "none" THEN ChatExcept(r.memory)
             ELSE IF s.raised # "none" THEN ChatExcept(r.memory)
             ELSE [answer |-> r.answer, docs |-> r.docs, sources |-> s.sources,
                   memory |-> r.memory, called |-> TRUE, raised |-> "none"]

\* a clear that drops the last turn only
ClearedLastTurn(mem) == IF Len(mem) <= 2 THEN <<>> ELSE SubSeq(mem, 1, Len(mem) - 2)

\* clear_memory: memory.clear()
ClearedMemory(mem) == <<>>

\* get_conversation_history
GetConversationHistory(mem) ==
    LET kept == SelectSeq(mem, LAMBDA m : m.type \in {"human", "ai"})
    IN  [i \in 1..Len(kept) |-> [type |-> kept[i].type, content |-> kept[i].content]]

\* get_statistics()["conversation_length"]
ConversationLength(mem) == Len(mem)

\* the chain rebuilt before the chunks are forwarded
KnowledgeBaseChainFirst(vsBefore, vsAfter, chain) == SetupConversationChain(vsBefore, chain)

\* add_documents_to_knowledge_base: the chain after the call; vsBefore, vsAfter:
\* vector_store before and after the inner add_documents
KnowledgeBaseChain(vsBefore, vsAfter, chain) == SetupConversationChain(vsAfter, chain)

----------------------------------------------------------------------------
(* Index objects *)

Referenced(vs, b, c, ch) == {vs, b, c, ch} \ {None}

\* a new object: the lowest identity no attribute refers to
Fresh(refs) ==
    CHOOSE h \in Handles : h \notin refs /\ \A g \in Handles : g < h => g \in refs

\* objects nothing refers to are gone
Collect(o, refs) == [h \in Handles |-> IF h \in refs THEN o[h] ELSE BlankObj]

\* the chunks the manager's store holds
StoreData == IF vector_store = None THEN <<>> ELSE objs[vector_store].data

\* vector_store and the objects once add_documents has ended with r
StoreAfterAdd(r) ==
    LET h == IF r.created
             THEN Fresh(Referenced(vector_store, base_retriever,
                                   compression_retriever, conversation_chain))
             ELSE vector_store
    IN  [vs |-> h,
         objs |-> IF h = None THEN objs
                  ELSE [objs EXCEPT ![h] = [data |-> r.data, dropped |-> FALSE]]]

\* the outcome of a call, all fields at their defaults
BlankRet(op) ==
    [op |-> op, raised |-> "none", docs |-> <<>>, answer |-> "", sources |-> {},
     context |-> [found |-> FALSE, parts |-> <<>>], k |-> 0, handle |-> None,
     called |-> FALSE, embedded |-> 0, method |-> "", nargs |-> 0, logged |-> ""]

\* initialize_session_state: no chatbot, no message, nothing loaded
InitialSession ==
    [chatbot |-> FALSE, messages |-> <<>>, documents_loaded |-> FALSE, processing |-> FALSE]

\* no function call is under study
NoArgs == [op |-> "none"]

----------------------------------------------------------------------------
(* Initial state: RAGChatbot() constructed over an empty persistence directory *)

Init ==
    /\ storeType \in {"chroma", "faiss"}
    /\ disk = EmptyDisk
    /\ objs = [h \in Handles |-> BlankObj]
    /\ vector_store = None
    /\ base_retriever = None
    /\ compression_retriever = None
    /\ conversation_chain = None
    /\ memory = <<>>
    /\ session = InitialSession
    /\ args = NoArgs
    /\ ret = BlankRet("construct")

(* Actions *)

\* vector_store_manager.add_documents(docs)
AddDocuments(docs, fail) ==
    /\ Len(StoreData) + Len(docs) <= MaxChunks
    /\ LET r == AddDocumentsResult(storeType, vector_store # None, StoreData, disk, docs, fail)
           a == StoreAfterAdd(r)
       IN  /\ vector_store' = a.vs
           /\ objs' = Collect(a.objs, Referenced(a.vs, base_retriever,
                                                 compression_retriever, conversation_chain))
           /\ disk' = r.disk
           /\ ret' = [BlankRet("add_documents") EXCEPT !.raised = r.raised,
                         !.embedded = r.embedded, !.nargs = Len(docs)]
    /\ UNCHANGED <<session, args, storeType, base_retriever, compression_retriever, conversation_chain, memory>>

\* vector_store_manager.reset_vector_store().  lenDefined: the Chroma class of the
\* installed library defines __len__, so that a store holding no chunk is falsy
\* in `if self.vector_store` and its (empty) collection is not deleted
ResetVectorStore(lenDefined) ==
    LET v == ResetVectorStoreValue(vector_store)
        truthy == vector_store # None /\ ~(lenDefined /\ StoreData = <<>>)
        o == IF storeType = "chroma" /\ truthy
             THEN [objs EXCEPT ![vector_store].dropped = TRUE]
             ELSE objs
    IN  /\ disk' = ResetDisk(storeType, truthy, disk)
        /\ vector_store' = v
        /\ objs' = Collect(o, Referenced(v, base_retriever,
                                         compression_retriever, conversation_chain))
        /\ ret' = BlankRet("reset_vector_store")
        /\ UNCHANGED <<session, args, storeType, base_retriever, compression_retriever, conversation_chain, memory>>

\* vector_store_manager.similarity_search(query, k)
SimilaritySearch(k, fail) ==
    /\ LET r == SimilaritySearchResult(vector_store, objs, k, fail)
       IN  ret' = [BlankRet("similarity_search") EXCEPT !.raised = r.raised,
                      !.docs = r.docs, !.called = r.called]
    /\ UNCHANGED <<session, args, storeType, disk, objs, vector_store, base_retriever,
                   compression_retriever, conversation_chain, memory>>

\* vector_store_manager.similarity_search_with_score(query, k)
SimilaritySearchWithScore(k, fail, sc) ==
    /\ LET r == SimilaritySearchWithScoreResult(vector_store, objs, k, fail, sc)
       IN  ret' = [BlankRet("similarity_search_with_score") EXCEPT !.raised = r.raised,
                      !.docs = r.docs, !.called = r.called]
    /\ UNCHANGED <<session, args, storeType, disk, objs, vector_store, base_retriever,
                   compression_retriever, conversation_chain, memory>>

\* vector_store_manager.get_retriever(search_kwargs)
GetRetriever(kw) ==
    /\ LET r == GetRetrieverResult(vector_store, kw)
       IN  ret' = [BlankRet("get_retriever") EXCEPT !.raised = r.raised,
                      !.handle = r.handle, !.k = r.k, !.method = kw.kind]
    /\ UNCHANGED <<session, args, storeType, disk, objs, vector_store, base_retriever,
                   compression_retriever, conversation_chain, memory>>

\* the calls of retrieve_documents: the strategy name, where the strategy fails
\* (the vector store call, the compression language-model call, the scored
\* search, the score filter), the distances the index reports and the contents
\* the extractor keeps; an input a strategy does not read is fixed
AllFar == [c \in Contents |-> 9]
RetrievalCalls ==
    {[method |-> m, failAt |-> f, sc |-> AllFar, keep |-> {}] :
        m \in {"similarity", "other"}, f \in {"none", "vector_store"}}
    \cup {[method |-> "compression", failAt |-> f, sc |-> AllFar, keep |-> kp] :
        f \in {"none", "vector_store", "llm"}, kp \in SUBSET Contents}
    \cup {[method |-> "hybrid", failAt |-> f, sc |-> sc, keep |-> {}] :
        f \in {"none", "vector_store", "score_search", "filter"}, sc \in [Contents -> Scores]}

\* retriever.retrieve_documents(query, method)
RetrieveDocuments(method, failAt, sc, keep) ==
    /\ LET r == RetrieveDocumentsResult(base_retriever, compression_retriever,
                                        vector_store, objs, method, failAt, sc, keep)
       IN  ret' = [BlankRet("retrieve_documents") EXCEPT !.raised = r.raised,
                      !.docs = r.docs, !.called = r.worked, !.method = method,
                      !.logged = r.logged]
    /\ UNCHANGED <<session, args, storeType, disk, objs, vector_store, base_retriever,
                   compression_retriever, conversation_chain, memory>>

\* chatbot.get_relevant_context(query, method)
GetRelevantContext(method, failAt, sc, keep) ==
    /\ LET r == RetrieveDocumentsResult(base_retriever, compression_retriever,
                                        vector_store, objs, method, failAt, sc, keep)
       IN  ret' = [BlankRet("get_relevant_context") EXCEPT !.raised = r.raised,
                      !.context = FormatRetrievedContext(r.docs), !.called = r.worked,
                      !.method = method, !.logged = r.logged]
    /\ UNCHANGED <<session, args, storeType, disk, objs, vector_store, base_retriever,
                   compression_retriever, conversation_chain, memory>>

\* where the chain may fail
ChainFailures == {"none", "retrieval", "llm"}

\* chatbot.chat(message, retrieval_method)
Chat(q, method, failAt, ans) ==
    /\ conversation_chain # None => Len(memory) < 2 * MaxTurns
    /\ LET r == ChatResult(conversation_chain, objs, memory, q, method, failAt, ans)
       IN  /\ memory' = r.memory
           /\ ret' = [BlankRet("chat") EXCEPT !.raised = r.raised, !.answer = r.answer,
                         !.docs = r.docs, !.sources = r.sources, !.called = r.called]
    /\ UNCHANGED <<session, args, storeType, disk, objs, vector_store, base_retriever,
                   compression_retriever, conversation_chain>>

\* chatbot.clear_memory()
ClearMemory ==
    /\ memory' = ClearedMemory(memory)
    /\ ret' = BlankRet("clear_memory")
    /\ UNCHANGED <<session, args, storeType, disk, objs, vector_store, base_retriever,
                   compression_retriever, conversation_chain>>

\* chatbot.add_documents_to_knowledge_base(docs): an exception of add_documents
\* propagates and the chain is not rebuilt
AddDocumentsToKnowledgeBase(docs, fail) ==
    /\ Len(StoreData) + Len(docs) <= MaxChunks
    /\ LET r  == AddDocumentsResult(storeType, vector_store # None, StoreData, disk, docs, fail)
           a  == StoreAfterAdd(r)
           ch == IF r.raised # "none" THEN conversation_chain
                 ELSE KnowledgeBaseChain(vector_store, a.vs, conversation_chain)
       IN  /\ vector_store' = a.vs
           /\ conversation_chain' = ch
           /\ objs' = Collect(a.objs, Referenced(a.vs, base_retriever,
                                                 compression_retriever, ch))
           /\ disk' = r.disk
           /\ ret' = [BlankRet("add_documents_to_knowledge_base") EXCEPT
                         !.raised = r.raised, !.embedded = r.embedded, !.nargs = Len(docs)]
    /\ UNCHANGED <<session, args, storeType, base_retriever, compression_retriever, memory>>

\* the vector store a newly constructed VectorStoreManager holds: None, or the
\* first object of the new process
ConstructedStore(type, d) ==
    IF LoadOrCreateVectorStore(type, d).loaded THEN 1 ELSE None

\* the process ends and a new one constructs RAGChatbot(): VectorStoreManager(),
\* DocumentRetriever(...), an empty memory, _setup_conversation_chain()
Restart ==
    LET l  == LoadOrCreateVectorStore(storeType, disk)
        vs == ConstructedStore(storeType, disk)
        rr == SetupRetrievers(vs)
    IN  /\ vector_store' = vs
        /\ objs' = [h \in Handles |->
                       IF h = vs THEN [data |-> l.data, dropped |-> FALSE] ELSE BlankObj]
        /\ base_retriever' = rr.base
        /\ compression_retriever' = rr.compression
        /\ conversation_chain' = SetupConversationChain(vs, None)
        /\ memory' = <<>>
        /\ ret' = BlankRet("construct")
        /\ UNCHANGED <<session, args, storeType, disk>>

Next ==
    \/ \E docs \in Batches, fail \in BOOLEAN : AddDocuments(docs, fail)
    \/ \E lenDefined \in BOOLEAN : ResetVectorStore(lenDefined)
    \/ \E k \in {KNone} \cup 0..MaxK, fail \in BOOLEAN : SimilaritySearch(k, fail)
    \/ \E k \in {KNone} \cup 0..MaxK, fail \in BOOLEAN, sc \in [Contents -> Scores] :
          SimilaritySearchWithScore(k, fail, sc)
    \/ \E kw \in SearchKwargs : GetRetriever(kw)
    \/ \E c \in RetrievalCalls : RetrieveDocuments(c.method, c.failAt, c.sc, c.keep)
    \/ \E c \in RetrievalCalls : GetRelevantContext(c.method, c.failAt, c.sc, c.keep)
    \/ \E q \in Questions, m \in Methods, f \in ChainFailures, ans \in Answers :
          Chat(q, m, f, ans)
    \/ ClearMemory
    \/ \E docs \in Batches, fail \in BOOLEAN : AddDocumentsToKnowledgeBase(docs, fail)
    \/ Restart

\* the whole system
Spec == Init /\ [][Next]_vars

\* the VectorStoreManager on its own, over process restarts
NextStore ==
    \/ \E docs \in Batches, fail \in BOOLEAN : AddDocuments(docs, fail)
    \/ \E lenDefined \in BOOLEAN : ResetVectorStore(lenDefined)
    \/ \E k \in {KNone} \cup 0..MaxK, fail \in BOOLEAN : SimilaritySearch(k, fail)
    \/ \E k \in {KNone} \cup 0..MaxK, fail \in BOOLEAN, sc \in [Contents -> Scores] :
          SimilaritySearchWithScore(k, fail, sc)
    \/ \E kw \in SearchKwargs : GetRetriever(kw)
    \/ Restart

SpecStore == Init /\ [][NextStore]_vars

\* the DocumentRetriever of a chatbot whose knowledge base is loaded and reset
NextRetriever ==
    \/ \E docs \in Batches, fail \in BOOLEAN : AddDocumentsToKnowledgeBase(docs, fail)
    \/ \E lenDefined \in BOOLEAN : ResetVectorStore(lenDefined)
    \/ Restart
    \/ \E c \in RetrievalCalls : RetrieveDocuments(c.method, c.failAt, c.sc, c.keep)
    \/ \E c \in RetrievalCalls : GetRelevantContext(c.method, c.failAt, c.sc, c.keep)

SpecRetriever == Init /\ [][NextRetriever]_vars

\* the conversation: chat turns, memory, and the knowledge base loaded and reset
NextChat ==
    \/ \E docs \in Batches, fail \in BOOLEAN : AddDocumentsToKnowledgeBase(docs, fail)
    \/ \E lenDefined \in BOOLEAN : ResetVectorStore(lenDefined)
    \/ Restart
    \/ \E q \in Questions, m \in Methods, f \in ChainFailures, ans \in Answers :
          Chat(q, m, f, ans)
    \/ ClearMemory

SpecChat == Init /\ [][NextChat]_vars

----------------------------------------------------------------------------
(* The Streamlit page (app.py).  The chatbot attributes are those of
   st.session_state.chatbot; they are blank while it is None. *)

\* no chatbot has been constructed and nothing is persisted
NoChatbot ==
    /\ disk = EmptyDisk
    /\ objs = [h \in Handles |-> BlankObj]
    /\ vector_store = None
    /\ base_retriever = None
    /\ compression_retriever = None
    /\ conversation_chain = None
    /\ memory = <<>>
    /\ session = InitialSession

\* RAGChatbot(): the attributes of a chatbot constructed over directory d
NewChatbot(type, d) ==
    LET l  == LoadOrCreateVectorStore(type, d)
        vs == ConstructedStore(type, d)
        rr == SetupRetrievers(vs)
    IN  [vector_store |-> vs,
         objs |-> [h \in Handles |->
                      IF h = vs THEN [data |-> l.data, dropped |-> FALSE] ELSE BlankObj],
         base_retriever |-> rr.base,
         compression_retriever |-> rr.compression,
         conversation_chain |-> SetupConversationChain(vs, None),
         memory |-> <<>>]

\* the attributes of the session's chatbot
CurrentChatbot ==
    [vector_store |-> vector_store, objs |-> objs, base_retriever |-> base_retriever,
     compression_retriever |-> compression_retriever,
     conversation_chain |-> conversation_chain, memory |-> memory]

\* st.session_state.chatbot = None: no chatbot, no index object
DroppedChatbot ==
    [vector_store |-> None, objs |-> [h \in Handles |-> BlankObj], base_retriever |-> None,
     compression_retriever |-> None, conversation_chain |-> None, memory |-> <<>>]

\* `if not st.session_state.chatbot: st.session_state.chatbot = RAGChatbot()`
SessionChatbot == IF session.chatbot THEN CurrentChatbot ELSE NewChatbot(storeType, disk)

\* chatbot b after add_documents_to_knowledge_base, whose add_documents ended with r
ChatbotAfterAdd(b, r) ==
    LET h  == IF r.created
              THEN Fresh(Referenced(b.vector_store, b.base_retriever,
                                    b.compression_retriever, b.conversation_chain))
              ELSE b.vector_store
        o  == IF h = None THEN b.objs
              ELSE [b.objs EXCEPT ![h] = [data |-> r.data, dropped |-> FALSE]]
        ch == IF r.raised # "none" THEN b.conversation_chain
              ELSE KnowledgeBaseChain(b.vector_store, h, b.conversation_chain)
    IN  [b EXCEPT !.vector_store = h, !.conversation_chain = ch,
                  !.objs = Collect(o, Referenced(h, b.base_retriever,
                                                 b.compression_retriever, ch))]

\* the chatbot attributes become those of b
ChatbotBecomes(b) ==
    /\ vector_store' = b.vector_store
    /\ objs' = b.objs
    /\ base_retriever' = b.base_retriever
    /\ compression_retriever' = b.compression_retriever
    /\ conversation_chain' = b.conversation_chain
    /\ memory' = b.memory

\* what document_loader.load_documents() does in the Load handler: it raises
\* (no folder), returns no document, or returns documents
LoadOutcomes == {"raises", "none", "documents"}

\* the Load button: load_documents_to_vector_store().  chunks: what
\* process_documents makes of the documents (nothing, when their texts are empty)
LoadButton(found, chunks, fail) ==
    IF found # "documents"
    THEN /\ chunks = <<>> /\ ~fail
         /\ session' = [session EXCEPT !.processing = FALSE]
         /\ ret' = [BlankRet("load") EXCEPT
                       !.logged = IF found = "raises" THEN "Error loading documents"
                                  ELSE "No documents found to load!"]
         /\ UNCHANGED <<args, storeType, disk, objs, vector_store, base_retriever,
                        compression_retriever, conversation_chain, memory>>
    ELSE LET b == SessionChatbot
             data == IF b.vector_store = None THEN <<>> ELSE b.objs[b.vector_store].data
             r == AddDocumentsResult(storeType, b.vector_store # None, data, disk, chunks, fail)
         IN  /\ Len(data) + Len(chunks) <= MaxChunks
             /\ ChatbotBecomes(ChatbotAfterAdd(b, r))
             /\ disk' = r.disk
             /\ session' = [session EXCEPT !.chatbot = TRUE, !.processing = FALSE,
                               !.documents_loaded = IF r.raised = "none" THEN TRUE ELSE @]
             /\ ret' = [BlankRet("load") EXCEPT !.embedded = r.embedded,
                           !.nargs = Len(chunks),
                           !.logged = IF r.raised = "none" THEN ""
                                      ELSE "Error loading documents"]
             /\ UNCHANGED <<args, storeType>>

\* the Reset Vector Store button: nothing happens without a chatbot
ResetButton(lenDefined) ==
    IF session.chatbot
    THEN LET truthy == vector_store # None /\ ~(lenDefined /\ StoreData = <<>>)
         IN  /\ disk' = ResetDisk(storeType, truthy, disk)
             /\ ChatbotBecomes(DroppedChatbot)
             /\ session' = [session EXCEPT !.chatbot = FALSE, !.documents_loaded = FALSE]
             /\ ret' = [BlankRet("reset") EXCEPT !.called = TRUE]
             /\ UNCHANGED <<args, storeType>>
    ELSE /\ ret' = BlankRet("reset")
         /\ UNCHANGED <<session, args, storeType, disk, objs, vector_store, base_retriever,
                        compression_retriever, conversation_chain, memory>>

\* the Clear Chat History button
ClearChatHistoryButton ==
    /\ session' = [session EXCEPT !.messages = <<>>]
    /\ memory' = IF session.chatbot THEN ClearedMemory(memory) ELSE memory
    /\ ret' = BlankRet("clear_chat_history")
    /\ UNCHANGED <<args, storeType, disk, objs, vector_store, base_retriever,
                   compression_retriever, conversation_chain>>

\* a prompt typed into the chat input, which is shown once documents_loaded is set
ChatInput(q, method, failAt, ans) ==
    /\ session.documents_loaded
    /\ Len(session.messages) < 2 * MaxTurns
    /\ LET b == SessionChatbot
           r == ChatResult(b.conversation_chain, b.objs, b.memory, q, method, failAt, ans)
       IN  /\ Len(b.memory) < 2 * MaxTurns
           /\ ChatbotBecomes([b EXCEPT !.memory = r.memory])
           /\ session' = [session EXCEPT !.chatbot = TRUE,
                             !.messages = @ \o <<[role |-> "user", content |-> q],
                                                 [role |-> "assistant", content |-> r.answer]>>]
           /\ ret' = [BlankRet("chat_input") EXCEPT !.answer = r.answer, !.docs = r.docs,
                         !.sources = r.sources, !.called = r.called]
    /\ UNCHANGED <<args, storeType, disk>>

\* the process ends; a new one serves a new session: nothing but the directory is left
NewSession ==
    /\ session' = InitialSession
    /\ ChatbotBecomes(DroppedChatbot)
    /\ ret' = BlankRet("new_session")
    /\ UNCHANGED <<args, storeType, disk>>

InitApp ==
    /\ storeType \in {"chroma", "faiss"}
    /\ NoChatbot
    /\ args = NoArgs
    /\ ret = BlankRet("new_session")

NextApp ==
    \/ \E found \in LoadOutcomes, chunks \in Batches, fail \in BOOLEAN :
          LoadButton(found, chunks, fail)
    \/ \E lenDefined \in BOOLEAN : ResetButton(lenDefined)
    \/ ClearChatHistoryButton
    \/ \E q \in Questions, m \in Methods \ {"other"}, f \in ChainFailures, ans \in Answers :
          ChatInput(q, m, f, ans)
    \/ NewSession

SpecApp == InitApp /\ [][NextApp]_vars

----------------------------------------------------------------------------
(* Single functions: the arguments are drawn in the initial state, the one
   action applies the function to them *)

\* the lists _hybrid_retrieval gets from the base retriever and from the scored
\* search: three contents on the one side, three on the other, "x" on both (under
\* different metadata); a score is below the threshold or exactly the threshold
HybridChunk(c, f) == [content |-> c, source |-> [kind |-> "str", val |-> f]]
ThresholdScores == {5, ScoreThreshold}
SimilarityLists == SeqsUpTo({HybridChunk(c, "f1.txt") : c \in {"x", "y", "z"}}, MaxSim)
ScoredLists ==
    SeqsUpTo({[doc |-> HybridChunk(c, "f2.txt"), score |-> sc] :
                 c \in {"x", "u", "v"}, sc \in ThresholdScores}, MaxScored)

InitHybrid ==
    /\ storeType = "chroma"
    /\ NoChatbot
    /\ args \in {[op |-> "_hybrid_retrieval", similarity_docs |-> sd, scored_docs |-> wd] :
                    sd \in SimilarityLists, wd \in ScoredLists}
    /\ ret = BlankRet("call")

\* retriever._hybrid_retrieval(query) with both searches returning
HybridRetrievalCall ==
    /\ args.op = "_hybrid_retrieval" /\ ret.op = "call"
    /\ ret' = [BlankRet("_hybrid_retrieval") EXCEPT
                  !.docs = HybridCombine(args.similarity_docs, args.scored_docs)]
    /\ UNCHANGED <<session, args, storeType, disk, objs, vector_store, base_retriever,
                   compression_retriever, conversation_chain, memory>>

NextHybrid == HybridRetrievalCall

SpecHybrid == InitHybrid /\ [][NextHybrid]_vars

InitDeduplicate ==
    /\ storeType = "chroma"
    /\ NoChatbot
    /\ args \in {[op |-> "_deduplicate_documents", documents |-> d] :
                    d \in SeqsUpTo(Chunks, MaxDocs)}
    /\ ret = BlankRet("call")

\* retriever._deduplicate_documents(documents)
DeduplicateDocumentsCall ==
    /\ args.op = "_deduplicate_documents" /\ ret.op = "call"
    /\ ret' = [BlankRet("_deduplicate_documents") EXCEPT
                  !.docs = DeduplicateDocuments(args.documents)]
    /\ UNCHANGED <<session, args, storeType, disk, objs, vector_store, base_retriever,
                   compression_retriever, conversation_chain, memory>>

NextDeduplicate == DeduplicateDocumentsCall

SpecDeduplicate == InitDeduplicate /\ [][NextDeduplicate]_vars

----------------------------------------------------------------------------
(* DocumentLoader *)

\* settings.PDF_DIR, as path components
FolderPath == <<"data", "documents">>

\* self.supported_extensions
SupportedExtensions == {".pdf", ".txt", ".json"}

\* the extensions of the file names of the model
Extensions == {".pdf", ".txt", ".json", ".docx", ".TXT"}

\* str.lower() of an extension
Lower(ext) == CASE ext = ".TXT" -> ".txt" [] OTHER -> ext

\* what a file holds.  "ok": well-formed for its type (for .json: the nested
\* year / month / day / detail mapping _flatten_json walks); "corrupt": it cannot
\* be parsed or decoded; "unexpected": valid JSON of another shape (a list, a
\* mapping to numbers).  A file the loader does not open is "ok".
Bodies(ext) ==
    IF Lower(ext) \notin SupportedExtensions THEN {"ok"}
    ELSE IF ext = ".json" THEN {"ok", "corrupt", "unexpected"}
    ELSE {"ok", "corrupt"}

\* the files: in the folder itself or in a subfolder of it
Files ==
    {[dir |-> d, name |-> [stem |-> "f", ext |-> e], body |-> b] :
        d \in {<<>>, <<"sub">>}, e \in Extensions, b \in {"ok", "corrupt", "unexpected"}}

\* the files of a tree in the order os.walk lists them: the folder's own files
\* first, no path twice
Trees ==
    {t \in SeqsUpTo({f \in Files : f.body \in Bodies(f.name.ext)}, MaxFiles) :
        \A i, j \in 1..Len(t) :
            i < j => /\ <<t[i].dir, t[i].name>> # <<t[j].dir, t[j].name>>
                     /\ ~(t[i].dir # <<>> /\ t[j].dir = <<>>)}

\* os.path.join(root, filename); a bare file name is a path with no directory part
Join(root, filename) == [dir |-> root, name |-> filename]

\* PyPDFLoader(file_path).load(): one Document a page, metadata["source"] the
\* path the loader was given
LoadPdf(file_path, body) ==
    IF body # "ok"
    THEN [raised |-> "Exception", docs |-> <<>>]
    ELSE [raised |-> "none",
          docs |-> [n \in 1..PdfPages |->
                       [content |-> [file |-> file_path, page |-> n], source |-> file_path]]]

\* TextLoader(file_path, encoding="utf-8").load(): one Document,
\* metadata["source"] the path the loader was given
LoadText(file_path, body) ==
    IF body # "ok"
    THEN [raised |-> "RuntimeError", docs |-> <<>>]
    ELSE [raised |-> "none",
          docs |-> <<[content |-> [file |-> file_path, page |-> 1], source |-> file_path]>>]

\* _flatten_json(data): .items() / .get() of a value that is no mapping
FlattenJson(body) == IF body = "unexpected" THEN "AttributeError" ELSE "none"

\* the .json branch: json.load, _flatten_json, one Document whose
\* metadata["source"] is the file name
LoadJson(file_path, filename, body) ==
    IF body = "corrupt"
    THEN [raised |-> "JSONDecodeError", docs |-> <<>>]
    ELSE IF FlattenJson(body) # "none"
         THEN [raised |-> FlattenJson(body), docs |-> <<>>]
         ELSE [raised |-> "none",
               docs |-> <<[content |-> [file |-> file_path, page |-> 1],
                           source |-> Join(<<>>, filename)]>>]

\* the try block of the loop
ParseFile(file_path, filename, ext, body) ==
    IF ext = ".pdf" THEN LoadPdf(file_path, body)
    ELSE IF ext = ".txt" THEN LoadText(file_path, body)
    ELSE LoadJson(file_path, filename, body)

\* an except clause that lets the exception of the file out
FileReraise(r) == [raised |-> r.raised, docs |-> <<>>]

\* `except Exception as e: print(...)`: the file adds nothing, the loop goes on
FileExcept(r) == [raised |-> "none", docs |-> <<>>]

\* one round of the loop over files; root: the directory os.walk is in
LoadFile(root, f) ==
    LET file_path == Join(root, f.name)
        ext       == Lower(f.name.ext)
    IN  IF ext \notin SupportedExtensions
        THEN [raised |-> "none", docs |-> <<>>]
        ELSE LET r == ParseFile(file_path, f.name, ext, f.body)
             IN  IF r.raised # "none" THEN FileExcept(r) ELSE r

\* the loop from the i-th file on
RECURSIVE LoadFrom(_, _)
LoadFrom(files, i) ==
    IF i > Len(files) THEN [raised |-> "none", docs |-> <<>>]
    ELSE LET r    == LoadFile(FolderPath \o files[i].dir, files[i])
             rest == LoadFrom(files, i + 1)
         IN  IF r.raised # "none" THEN [raised |-> r.raised, docs |-> <<>>]
             ELSE IF rest.raised # "none" THEN rest
             ELSE [raised |-> "none", docs |-> r.docs \o rest.docs]

\* load_documents(); exists: os.path.exists(self.folder_path)
LoadDocuments(exists, files) ==
    IF ~exists
    THEN [raised |-> "FileNotFoundError", docs |-> <<>>]
    ELSE LoadFrom(files, 1)

InitLoader ==
    /\ storeType = "chroma"
    /\ NoChatbot
    /\ args \in {[op |-> "load_documents", exists |-> TRUE, files |-> t] : t \in Trees}
                \cup {[op |-> "load_documents", exists |-> FALSE, files |-> <<>>]}
    /\ ret = BlankRet("call")

\* document_loader.load_documents()
LoadDocumentsCall ==
    /\ args.op = "load_documents" /\ ret.op = "call"
    /\ LET r == LoadDocuments(args.exists, args.files)
       IN  ret' = [BlankRet("load_documents") EXCEPT !.raised = r.raised, !.docs = r.docs]
    /\ UNCHANGED <<session, args, storeType, disk, objs, vector_store, base_retriever,
                   compression_retriever, conversation_chain, memory>>

NextLoader == LoadDocumentsCall

SpecLoader == InitLoader /\ [][NextLoader]_vars

----------------------------------------------------------------------------
(* TextProcessor *)

\* A text is a run of characters [text, from, to]: the characters from..to of
\* the page_content of the text-th input document

\* len(page_content)
TextLen(c) == c.to - c.from + 1

\* lengths of the input documents: empty, one character, a full chunk, one
\* character more, two chunks
TextLengths == {0, 1, CHUNK_SIZE, CHUNK_SIZE + 1, 2 * CHUNK_SIZE}

\* Document(page_content=..., metadata={"source": source}), the i-th of the input
InputDocument(i, length, source) ==
    [page_content |-> [text |-> i, from |-> 1, to |-> length],
     metadata |-> [source |-> source]]

\* the document sequences handed to process_documents
DocumentSequences ==
    {[i \in 1..Len(q) |-> InputDocument(i, q[i][1], q[i][2])] :
        q \in SeqsUpTo(TextLengths \X {"f1.txt", "f2.txt"}, MaxTexts)}

\* the pieces the splitter cuts a text into, from position start on: at most
\* CHUNK_SIZE characters each, a piece starting CHUNK_OVERLAP characters before
\* the end of the one before it; an empty text gives no piece
RECURSIVE SplitText(_, _)
SplitText(c, start) ==
    LET end == Min(start + CHUNK_SIZE - 1, c.to)
    IN  IF TextLen(c) = 0 THEN <<>>
        ELSE <<[c EXCEPT !.from = start, !.to = end]>>
             \o (IF end = c.to THEN <<>>
                 ELSE SplitText(c, start + CHUNK_SIZE - CHUNK_OVERLAP))

\* text_splitter.split_documents(documents): every piece becomes a Document
\* with a copy of the metadata of the document it is cut from
RECURSIVE SplitDocumentsFrom(_, _)
SplitDocumentsFrom(documents, i) ==
    IF i > Len(documents) THEN <<>>
    ELSE LET pieces == SplitText(documents[i].page_content, 1)
         IN  [k \in 1..Len(pieces) |->
                 [page_content |-> pieces[k], metadata |-> documents[i].metadata]]
             \o SplitDocumentsFrom(documents, i + 1)

SplitDocuments(documents) == SplitDocumentsFrom(documents, 1)

\* chunk.metadata.update({"chunk_id": i, "chunk_size": len(chunk.page_content)})
WithChunkMetadata(chunk, i) ==
    [page_content |-> chunk.page_content,
     metadata |-> [source |-> chunk.metadata.source, chunk_id |-> i,
                   chunk_size |-> TextLen(chunk.page_content)]]

\* a numbering that starts again at 0 with every document
ProcessPerDocument(documents) ==
    LET chunks == SplitDocuments(documents)
    IN  [k \in 1..Len(chunks) |->
            WithChunkMetadata(chunks[k],
                Cardinality({j \in 1..(k - 1) :
                    chunks[j].page_content.text = chunks[k].page_content.text}))]

\* process_documents(documents): enumerate() counts from 0 over all the chunks
ProcessDocuments(documents) ==
    LET chunks == SplitDocuments(documents)
    IN  [k \in 1..Len(chunks) |-> WithChunkMetadata(chunks[k], k - 1)]

InitProcessor ==
    /\ storeType = "chroma"
    /\ NoChatbot
    /\ args \in {[op |-> "process_documents", documents |-> d] : d \in DocumentSequences}
    /\ ret = BlankRet("call")

\* text_processor.process_documents(documents)
ProcessDocumentsCall ==
    /\ args.op = "process_documents" /\ ret.op = "call"
    /\ ret' = [BlankRet("process_documents") EXCEPT !.docs = ProcessDocuments(args.documents)]
    /\ UNCHANGED <<session, args, storeType, disk, objs, vector_store, base_retriever,
                   compression_retriever, conversation_chain, memory>>

NextProcessor == ProcessDocumentsCall

SpecProcessor == InitProcessor /\ [][NextProcessor]_vars

----------------------------------------------------------------------------
(* Properties *)

\* everything but the outcome of the call
StateVars == <<storeType, disk, objs, vector_store, base_retriever,
               compression_retriever, conversation_chain, memory>>

\* C1: the manager is a two-state machine (Empty: vector_store is None).  An
\* add_documents with a non-empty batch that returns leaves the store Populated
\* (one that raises leaves it Empty or Populated as it was); with an empty batch
\* it raises nothing and changes neither the state nor the persisted data;
\* reset_vector_store leaves the store Empty; the searches and get_retriever
\* change nothing.
C1_TwoStateMachine ==
    [][/\ (ret'.op = "add_documents" /\ ret'.nargs > 0 /\ ret'.raised = "none")
             => vector_store' # None
       /\ (ret'.op = "add_documents" /\ ret'.nargs > 0 /\ ret'.raised # "none")
             => ((vector_store' = None) <=> (vector_store = None))
       /\ (ret'.op = "add_documents" /\ ret'.nargs = 0)
             => (ret'.raised = "none" /\ UNCHANGED StateVars)
       /\ ret'.op = "reset_vector_store" => vector_store' = None
       /\ ret'.op \in {"similarity_search", "similarity_search_with_score", "get_retriever"}
             => UNCHANGED StateVars
      ]_vars

\* add_documents has appended a batch to a populated store
C1_Witness ==
    /\ ret.op = "add_documents" /\ ret.nargs > 0 /\ ret.raised = "none"
    /\ vector_store # None /\ Len(StoreData) > ret.nargs

\* C2: get_retriever on an Empty store raises ValueError and changes nothing; on a
\* Populated store it returns, without error, a retriever over the store's index
\* bound to RETRIEVAL_K (to the k of search_kwargs when one is given).
C2_GetRetriever ==
    [][ret'.op = "get_retriever" =>
          /\ UNCHANGED StateVars
          /\ vector_store = None => ret'.raised = "ValueError"
          /\ vector_store # None =>
                /\ ret'.raised = "none"
                /\ ret'.handle = vector_store
                /\ ret'.method \in {"None", "empty"} => ret'.k = RETRIEVAL_K
                /\ ret'.method = "k" => ret'.k \in 1..MaxK
      ]_vars

\* get_retriever has failed on an Empty store
C2_Witness == ret.op = "get_retriever" /\ vector_store = None /\ ret.raised = "ValueError"

\* C3: on an Empty store similarity_search and similarity_search_with_score return
\* the empty sequence for every k, raise nothing and do not query the index.
C3_EmptySearch ==
    [][(ret'.op \in {"similarity_search", "similarity_search_with_score"} /\ vector_store = None)
          => (ret'.raised = "none" /\ ret'.docs = <<>> /\ ret'.called = FALSE)
      ]_vars

\* a search has run on a store that is Empty although the directory was written
C3_Witness ==
    /\ ret.op \in {"similarity_search", "similarity_search_with_score"}
    /\ vector_store = None /\ ret.docs = <<>>
    /\ (disk.chromaFiles \/ disk.faissFolder)

\* C4: chat with no conversation chain configured returns the fixed not-ready
\* answer with empty sources and source documents, invokes neither the language
\* model nor the retriever, and leaves the memory as it was.
C4_ChatNotReady ==
    [][(ret'.op = "chat" /\ conversation_chain = None)
          => /\ ret'.raised = "none"
             /\ ret'.answer = NotReadyAnswer
             /\ ret'.sources = {} /\ ret'.docs = <<>>
             /\ ret'.called = FALSE
             /\ memory' = memory
      ]_vars

\* chat has answered not-ready
C4_Witness == ret.op = "chat" /\ conversation_chain = None /\ ret.answer = NotReadyAnswer

\* C5: when a step of chat fails after the chain is configured, chat raises
\* nothing, returns the error answer with empty sources, and the memory after
\* the call equals the memory before it.
C5_FailedTurnNotRecorded ==
    [][(ret'.op = "chat" /\ conversation_chain # None /\ ret'.answer = ErrorAnswer)
          => (ret'.raised = "none" /\ ret'.sources = {} /\ ret'.docs = <<>> /\ memory' = memory)
      ]_vars

\* C6: retrieve_documents with an unrecognised strategy name fails with an
\* unknown-method error the caller sees, whether or not a base retriever is set.
C6_UnknownMethodFails ==
    (ret.op = "retrieve_documents" /\ ret.method = "other") => ret.raised = "ValueError"

\* C7: with a recognised strategy, retrieve_documents and get_relevant_context
\* raise nothing; a strategy that fails is logged and the result is the empty
\* sequence (the no-context text for get_relevant_context).
C7_StrategyFailureCaught ==
    (ret.op \in {"retrieve_documents", "get_relevant_context"}
        /\ ret.method \in {"similarity", "compression", "hybrid"})
    => /\ ret.raised = "none"
       /\ ret.logged = "Error during retrieval" => (ret.docs = <<>> /\ ~ret.context.found)

\* a hybrid retrieval has failed and returned nothing
C7_Witness ==
    /\ ret.op = "retrieve_documents" /\ ret.method = "hybrid"
    /\ ret.logged = "Error during retrieval" /\ ret.docs = <<>> /\ ret.raised = "none"

\* C8: after clear_memory the conversation history is empty and the conversation
\* length is 0; clearing again changes nothing; the vector store, its objects,
\* the directory and the conversation chain are as before the call.
C8_ClearMemory ==
    [][ret'.op = "clear_memory" =>
          /\ GetConversationHistory(memory') = <<>>
          /\ ConversationLength(memory') = 0
          /\ ClearedMemory(memory') = memory'
          /\ UNCHANGED <<vector_store, objs, disk, conversation_chain,
                         base_retriever, compression_retriever>>
      ]_vars

\* clear_memory has run on a chatbot whose chain is configured
C8_Witness ==
    ret.op = "clear_memory" /\ conversation_chain # None /\ vector_store # None /\ memory = <<>>

\* C9: add_documents_to_knowledge_base with a non-empty batch that returns leaves
\* the store Populated and the conversation chain built over that very index
\* object, with the memory as before the call; a chat with the chain configured
\* does not return the not-ready answer.
C9_ChainRebuiltAfterAdd ==
    [][/\ (ret'.op = "add_documents_to_knowledge_base" /\ ret'.nargs > 0 /\ ret'.raised = "none")
             => /\ vector_store' # None
                /\ conversation_chain' = vector_store'
                /\ memory' = memory
       /\ (ret'.op = "chat" /\ conversation_chain # None) => ret'.answer # NotReadyAnswer
      ]_vars

\* the knowledge base has been loaded with turns in memory, and the chain is
\* bound to the store
C9_Witness ==
    /\ ret.op = "add_documents_to_knowledge_base" /\ ret.nargs > 0 /\ ret.raised = "none"
    /\ conversation_chain = vector_store /\ vector_store # None /\ memory # <<>>

\* C10: a manager constructed after a restart of a process whose store was
\* Populated starts Populated, holds the chunks the store held, and embeds nothing.
C10_RestartReloads ==
    [][(ret'.op = "construct" /\ vector_store # None)
          => /\ vector_store' # None
             /\ objs'[vector_store'].data = objs[vector_store].data
             /\ ret'.embedded = 0
      ]_vars

\* C11: reset_vector_store drops the indexed data and deletes the persisted files:
\* after it the persistence directory holds nothing, a manager constructed by the
\* process started after the reset starts Empty, and a search that follows the
\* reset returns no chunk.
C11_ResetDropsEverything ==
    [][/\ ret'.op = "reset_vector_store" => ~DirNonEmpty(disk')
       /\ (ret.op = "reset_vector_store" /\ ret'.op = "construct") => vector_store' = None
       /\ (ret.op = "reset_vector_store"
             /\ ret'.op \in {"similarity_search", "similarity_search_with_score"})
          => ret'.docs = <<>>
      ]_vars

\* C12: a chat that succeeds appends exactly two turns to the memory, the question
\* (human) and then the returned answer (ai); a chat that returns the not-ready
\* or the error answer appends nothing; the history alternates human and ai and
\* has even length.
C12_TwoTurnsPerSuccess ==
    [][ret'.op = "chat" =>
          /\ ret'.answer \in {NotReadyAnswer, ErrorAnswer} => memory' = memory
          /\ ret'.answer \notin {NotReadyAnswer, ErrorAnswer} =>
                \E q \in Questions : memory' = SaveContext(memory, q, ret'.answer)
          /\ LET h == GetConversationHistory(memory')
             IN  /\ Len(h) % 2 = 0
                 /\ \A i \in 1..Len(h) :
                       h[i].type = (IF i % 2 = 1 THEN "human" ELSE "ai")
      ]_vars

\* the positions of s whose content occurs at no earlier position
FirstOccurrences(s) ==
    {i \in 1..Len(s) : \A j \in 1..(i - 1) : s[j].content # s[i].content}

\* the union the hybrid strategy is to return: the similarity results, then the
\* scored results with a score strictly below the threshold
HybridUnion ==
    LET below == SelectSeq(args.scored_docs, LAMBDA p : p.score < ScoreThreshold)
    IN  args.similarity_docs \o [i \in 1..Len(below) |-> below[i].doc]

\* C13: the hybrid strategy returns the similarity results followed by the scored
\* results whose score is strictly below 0.7, each content once (its first
\* occurrence), cut to RETRIEVAL_K: never more than RETRIEVAL_K chunks, no two
\* with the same content, every one from one of the two lists.
C13_HybridUnion ==
    ret.op = "_hybrid_retrieval" =>
        LET unique == SelectAt(HybridUnion, FirstOccurrences(HybridUnion))
        IN  /\ Len(ret.docs) <= RETRIEVAL_K
            /\ \A i, j \in 1..Len(ret.docs) : i # j => ret.docs[i].content # ret.docs[j].content
            /\ \A i \in 1..Len(ret.docs) : \E j \in 1..Len(HybridUnion) : ret.docs[i] = HybridUnion[j]
            /\ ret.docs = SubSeq(unique, 1, Min(RETRIEVAL_K, Len(unique)))

\* the two lists held five contents between them and the result was cut to
\* RETRIEVAL_K chunks, the last of them from the scored list
C13_Witness ==
    /\ ret.op = "_hybrid_retrieval"
    /\ Cardinality({HybridUnion[i].content : i \in 1..Len(HybridUnion)}) > RETRIEVAL_K
    /\ Len(ret.docs) = RETRIEVAL_K
    /\ ret.docs[RETRIEVAL_K].source.val = "f2.txt"

\* C14: _deduplicate_documents keeps, in the original order, exactly the first
\* occurrence of every content, whatever the metadata: two chunks with the same
\* content never both survive, and a chunk whose content differs from every
\* earlier one is never dropped.
C14_Deduplicate ==
    ret.op = "_deduplicate_documents" =>
        LET d == args.documents
        IN  /\ ret.docs = SelectAt(d, FirstOccurrences(d))
            /\ \A i, j \in 1..Len(ret.docs) : i # j => ret.docs[i].content # ret.docs[j].content
            /\ \A i \in FirstOccurrences(d) : \E k \in 1..Len(ret.docs) : ret.docs[k] = d[i]

\* a content came twice under different metadata, only the first was kept, and
\* a chunk with another content after them was kept too
C14_Witness ==
    /\ ret.op = "_deduplicate_documents"
    /\ \E i, j \in 1..Len(args.documents) :
          /\ i < j
          /\ args.documents[i].content = args.documents[j].content
          /\ args.documents[i].source # args.documents[j].source
    /\ Len(ret.docs) = 2
    /\ ret.docs[2].content = "y"

\* a file of a supported type that is well-formed
Parseable(f) == Lower(f.name.ext) \in SupportedExtensions /\ f.body = "ok"

\* the positions of docs that hold a Document read from file f of the folder
DocsOf(docs, f) ==
    {k \in 1..Len(docs) : docs[k].content.file = Join(FolderPath \o f.dir, f.name)}

\* C15: for a folder that exists load_documents raises nothing, whatever the
\* files: an unsupported file and a supported file that fails to parse (a JSON
\* file of another shape included) contribute nothing, and every well-formed
\* supported file contributes its documents, in the order of the walk; the call
\* fails only when the folder does not exist (FileNotFoundError).
C15_PerFileFailuresSkipped ==
    ret.op = "load_documents" =>
        /\ ~args.exists => ret.raised = "FileNotFoundError"
        /\ args.exists =>
              /\ ret.raised = "none"
              /\ \A i \in 1..Len(args.files) :
                    IF Parseable(args.files[i])
                    THEN DocsOf(ret.docs, args.files[i]) # {}
                    ELSE DocsOf(ret.docs, args.files[i]) = {}
              /\ \A k \in 1..Len(ret.docs) :
                    \E i \in 1..Len(args.files) : k \in DocsOf(ret.docs, args.files[i])
              /\ \A i, j \in 1..Len(args.files) :
                    i < j => \A k \in DocsOf(ret.docs, args.files[i]) :
                                \A l \in DocsOf(ret.docs, args.files[j]) : k < l

\* a JSON file of another shape was skipped and the file after it was loaded
C15_Witness ==
    /\ ret.op = "load_documents" /\ ret.raised = "none"
    /\ Len(args.files) = 2
    /\ args.files[1].body = "unexpected"
    /\ Parseable(args.files[2])
    /\ DocsOf(ret.docs, args.files[2]) = 1..Len(ret.docs)
    /\ ret.docs # <<>>

\* C16: a folder holding one well-formed .pdf, .txt or .json file, in the folder
\* itself or in a subfolder, yields at least one Document, and the source of every
\* Document is the name of the file, not its path.
C16_SourceIsFileName ==
    (ret.op = "load_documents" /\ args.exists
        /\ Len(args.files) = 1 /\ Parseable(args.files[1]))
    => /\ Len(ret.docs) >= 1
       /\ \A k \in 1..Len(ret.docs) : ret.docs[k].source = Join(<<>>, args.files[1].name)

\* C17: the chunks process_documents returns are numbered 0, 1, ..., n-1 in output
\* order over all the documents; the chunk_size of a chunk is the length of its
\* own content; a chunk carries the source of the document it was cut from.
C17_ChunkMetadata ==
    ret.op = "process_documents" =>
        \A k \in 1..Len(ret.docs) :
            LET chunk == ret.docs[k]
            IN  /\ chunk.metadata.chunk_id = k - 1
                /\ chunk.metadata.chunk_size = chunk.page_content.to - chunk.page_content.from + 1
                /\ chunk.page_content.text \in 1..Len(args.documents)
                /\ chunk.metadata.source =
                      args.documents[chunk.page_content.text].metadata.source

\* two documents with different sources were each cut into several chunks, and
\* the numbering went on into the second document
C17_Witness ==
    /\ ret.op = "process_documents"
    /\ Len(args.documents) = 2
    /\ args.documents[1].metadata.source # args.documents[2].metadata.source
    /\ \E k \in 3..Len(ret.docs) :
          /\ ret.docs[k].page_content.text = 2
          /\ ret.docs[k].page_content.from > 1
          /\ ret.docs[k].metadata.chunk_id = k - 1
          /\ ret.docs[2].page_content.text = 1

\* C18: in every state reached through the chatbot and its manager the
\* conversation chain is configured exactly when the vector store is Populated;
\* a chat after the store was reset to Empty returns the not-ready answer.
C18_ChainIffPopulated ==
    /\ (conversation_chain # None) <=> (vector_store # None)
    /\ (ret.op = "chat" /\ vector_store = None) => ret.answer = NotReadyAnswer

\* C19: whenever the store is Populated, retrieve_documents with a recognised
\* strategy queries the index the store holds and does not answer "No retriever
\* available"; add_documents_to_knowledge_base with a non-empty batch on a
\* chatbot constructed over an Empty store leaves the base retriever set and
\* bound to the new index.
C19_RetrieverFollowsStore ==
    [][/\ (ret'.op \in {"retrieve_documents", "get_relevant_context"}
             /\ ret'.method \in {"similarity", "compression", "hybrid"}
             /\ vector_store # None)
          => /\ ret'.logged # "No retriever available"
             /\ ret'.called
             /\ base_retriever = vector_store
       /\ (ret'.op = "add_documents_to_knowledge_base" /\ ret'.nargs > 0
             /\ ret'.raised = "none" /\ vector_store = None)
          => (base_retriever' # None /\ base_retriever' = vector_store')
      ]_vars

\* C20: in every state of the session, documents_loaded set means that a chatbot
\* exists, that its vector store is Populated and that its conversation chain is
\* configured; a prompt typed into the chat input is never answered with the
\* not-ready answer.
C20_LoadedMeansReady ==
    /\ session.documents_loaded
          => (session.chatbot /\ vector_store # None /\ conversation_chain # None)
    /\ ret.op = "chat_input" => ret.answer # NotReadyAnswer

\* C21: once the Reset Vector Store button has been handled the vector store is
\* Empty and the persistence directory holds no chunk, whatever the session
\* state it was pressed in (a new session over a directory written by an earlier
\* process included); the Load that follows indexes the newly loaded chunks only.
C21_ResetButtonEmpties ==
    [][/\ ret'.op = "reset"
          => /\ vector_store' = None
             /\ disk'.chromaColl = <<>> /\ disk'.faissData = <<>>
       /\ (ret.op = "reset" /\ ret'.op = "load" /\ ret'.nargs > 0 /\ ret'.logged = "")
          => /\ vector_store' # None
             /\ Len(objs'[vector_store'].data) = ret'.nargs
      ]_vars

\* C22: the retrieval_method handed to chat has no effect on the turn: from one
\* and the same state, with the same message and the same behaviour of the
\* retriever and the language model, a chat under any strategy name (an
\* unrecognised one included) retrieves the same chunks, returns the same answer
\* and sources, and leaves the same memory as a chat under "similarity".
C22_MethodHasNoEffect ==
    \A q \in Questions, f \in ChainFailures, ans \in Answers, m \in Methods :
        ChatResult(conversation_chain, objs, memory, q, m, f, ans)
            = ChatResult(conversation_chain, objs, memory, q, "similarity", f, ans)

\* a chat has been answered from retrieved chunks, in a state where a chat
\* under "hybrid" and one under an unrecognised name are answered as well
C22_Witness ==
    /\ ret.op = "chat" /\ ret.called /\ ret.answer \in Answers /\ ret.docs # <<>>
    /\ conversation_chain # None /\ Len(memory) = 2
    /\ \A m \in {"hybrid", "other"} :
          ChatResult(conversation_chain, objs, memory, "q2", m, "none", "a1").answer = "a1"

====
